---- MODULE Spec2Model ----
(***************************************************************************)
(* The watch subsystem of kelindar/loader: the Loader's registry of        *)
(* watchers (Watch / Unwatch) and the per-URI watcher state machine        *)
(* (Start / check / checkLoop / Close / dispose).  A step is one access to  *)
(* memory that another goroutine can change at that moment: the state      *)
(* word, the updates channel, the sync.Map of watchers, the clock and the  *)
(* resource behind the uri.  What a goroutine does on its own between two  *)
(* such accesses (returning, storing updatedAt, which only the check in     *)
(* flight touches) is part of the step before it.                          *)
(*                                                                         *)
(* Spec is the Loader with its callers: Watch and Unwatch calls, contexts  *)
(* being cancelled, a consumer receiving.  The uri watched there is of a   *)
(* remote scheme, whose fetcher answers freely (Outcomes), so nothing in   *)
(* Spec depends on the value of the clock, and Spec leaves the clock       *)
(* alone.  SpecStart is the harness of the package's own tests: one        *)
(* watcher made by newWatcher and started directly, with the clock         *)
(* ticking.  SpecPoll is one Watch call on a uri of a local file, of an    *)
(* unsupported scheme, or of a fetcher that alternates data and error,     *)
(* with the clock ticking, the file being rewritten, fetches failing, a    *)
(* consumer that keeps what it receives, and an Unwatch call.  SpecDirect  *)
(* is the tests' watcher with its Start, check and Close called directly   *)
(* and a polling interval of a second, the loop's sleep being a timed      *)
(* wait.  SpecCancel is one Watch call whose context is cancelled at any   *)
(* moment.  SpecLoad is Load and LoadIf called directly on a file's uri.   *)
(***************************************************************************)
EXTENDS Integers, Sequences, FiniteSets, TLC

(* ------------------------------ bounds --------------------------------- *)
MaxCalls   == 2      \* Watch calls issued (each allocates one watcher object)
MaxUnwatch == 1      \* Unwatch calls issued
MaxClock   == 4      \* largest value the wall clock reaches, in ticks
MaxStarters == 2     \* direct calls of watcher.Start in the Start harness
MaxVersion == 2      \* contents the watched file goes through
MaxFail    == 1      \* fetches of the watched file that fail
MaxFetch   == 3      \* calls a counting fetcher answers
MaxCheckers == 1     \* goroutines of a test that call check and Close directly
MaxLoads   == 2      \* direct calls of Load and LoadIf

(* -------------------------- program constants -------------------------- *)
isCreated  == 0
isRunning  == 1
isCanceled == 2
isDisposed == 3
ChanCap    == 1      \* make(chan Update, 1)
NoWatcher  == 0      \* no entry in the sync.Map / nil *watcher
Background == 0      \* context.Background(): never cancelled
Nil        == 0      \* nil bytes, nil error
TicksPerSec == 2     \* clock ticks in one second, the unit Unix() truncates to

Uris     == {"u"}
Calls    == 1..MaxCalls
Watchers == Calls            \* call c allocates watcher object c (newWatcher)
Unwatchs == 1..MaxUnwatch
Starters == 1..MaxStarters   \* direct callers of watcher.Start (TestWatchTwice)
Checkers == 1..MaxCheckers   \* direct callers of watcher.check and watcher.Close
Schemes  == {"s3", "file", "ftp", "stub"}   \* remote, local file, unsupported,
                                             \* alternating fetcher
\* what a remote fetcher can return: (nil,nil), (b,nil), (nil,err)
Outcomes == {[b |-> Nil, err |-> Nil], [b |-> 1, err |-> Nil], [b |-> Nil, err |-> 1]}

WatchT(c)   == <<"watch", c>>
LoopT(w)    == <<"loop", w>>
UnwatchT(k) == <<"unwatch", k>>
StarterT(s) == <<"starter", s>>
CheckerT(i) == <<"checker", i>>
Threads == {WatchT(c) : c \in Calls} \cup {LoopT(w) : w \in Watchers}
           \cup {UnwatchT(k) : k \in Unwatchs} \cup {StarterT(s) : s \in Starters}
           \cup {CheckerT(i) : i \in Checkers}

VARIABLES
  watchers,   \* Loader.watchers: uri -> watcher (NoWatcher when absent)
  state,      \* watcher.state
  updatedAt,  \* watcher.updatedAt
  updates,    \* watcher.updates: the buffered contents of the channel
  closed,     \* whether watcher.updates has been closed
  clock,      \* the wall clock read by time.Now()
  ctxDone,    \* ctxDone[c]: the context given to Watch call c has fired
  pc,         \* position of every goroutine
  stack,      \* return positions of every goroutine
  tw,         \* the watcher a goroutine operates on (Watch's `watch`, receiver w)
  tctx,       \* the context a goroutine holds (Background or a call's ctx)
  tnow,       \* check's local now
  tprev,      \* the w.updatedAtTime() a check in flight has passed to LoadIf
  twake,      \* the instant a sleeping checkLoop wakes at (0: not sleeping)
  tout,       \* check's local (b, err)
  ures,       \* Unwatch's return value
  nClose,     \* number of close(w.updates) executed
  nStop,      \* number of w.onStop() executed
  nWin,       \* number of Start calls that won Created->Running
  nImm,       \* number of immediate checks begun by Start
  nLoop,      \* number of checkLoop goroutines spawned
  sentClosed, \* a check executed w.updates <- u on the closed channel
  scheme,     \* the scheme of the uri under watch
  interval,   \* the interval given to Watch / newWatcher, in ticks
  modTime,    \* the watched file's modification time
  version,    \* the watched file's contents
  nfail,      \* fetches of the watched file that have failed
  nfetch,     \* calls a counting fetcher has answered
  received,   \* the Updates the consumer has received, in order
  loaded      \* the last direct call of LoadIf: its number, argument and result

vars == <<watchers, state, updatedAt, updates, closed, clock, ctxDone, pc, stack,
          tw, tctx, tnow, tprev, twake, tout, ures, nClose, nStop, nWin, nImm,
          nLoop, sentClosed, scheme, interval, modTime, version, nfail, nfetch,
          received, loaded>>

shared == <<watchers, state, updatedAt, updates, closed, clock>>
locals == <<tw, tctx, tnow, tprev, twake, tout, ures>>
hist   == <<nClose, nStop, nWin, nImm, nLoop, sentClosed>>
fetcher == <<scheme, interval, modTime, version, nfail, nfetch>>

(* ------------------------------ helpers -------------------------------- *)

\* atomic.CompareAndSwapInt32(&w.state, from, to) on the state word s
changeState(s, from, to) ==
  IF s = from THEN [ok |-> TRUE, st |-> to] ELSE [ok |-> FALSE, st |-> s]

\* LoadOrStore as it would be with Store in its place: the new watcher always
\* replaces the entry
LoadOrStore_Store(m, u, w) ==
  [m |-> [m EXCEPT ![u] = w], actual |-> w, loaded |-> FALSE]

\* sync.Map.LoadOrStore(uri, w) on the map m
LoadOrStore(m, u, w) ==
  IF m[u] # NoWatcher
    THEN [m |-> m, actual |-> m[u], loaded |-> TRUE]
    ELSE [m |-> [m EXCEPT ![u] = w], actual |-> w, loaded |-> FALSE]

\* a fetcher's result (b, err); Nil is nil
Outcome(b, e) == [b |-> b, err |-> e]

\* time.Time.Unix(): the seconds of an instant given in ticks
Unix(t) == t \div TicksPerSec

\* isModified(updatedAt, updatedSince) of the file client
isModified(at, since) == Unix(at) > Unix(since)

\* file.Client.DownloadIf: os.Stat fails; or the file is not modified since; or
\* Download's ioutil.ReadFile returns the contents, or fails with nothing or
\* with the part it has read
DownloadIf(since) ==
  (IF nfail < MaxFail THEN {Outcome(Nil, 1)} ELSE {})
  \cup (IF ~isModified(modTime, since)
          THEN {Outcome(Nil, Nil)}
          ELSE {Outcome(version, Nil)}
               \cup (IF nfail < MaxFail THEN {Outcome(version, 1)} ELSE {}))

\* the fetcher that alternates: its odd calls return data, its even calls fail
Alternate(k) == IF k % 2 = 1 THEN Outcome(k, Nil) ELSE Outcome(Nil, k)

\* Loader.LoadIf: what the fetcher of the uri's scheme can return; an
\* unsupported scheme returns the error
LoadIf(since) ==
  CASE scheme = "file" -> DownloadIf(since)
    [] scheme = "s3" -> Outcomes
    [] scheme = "stub" -> {Alternate(nfetch + 1)}
    [] OTHER -> {Outcome(Nil, 1)}

\* the schemes whose fetcher counts its calls, and answers MaxFetch of them
Counted == {"stub", "ftp"}

\* the failed fetches of the file, and the calls a counting fetcher has
\* answered, after a fetch that returned o
failed(o) == IF scheme = "file" /\ o.err # Nil THEN nfail + 1 ELSE nfail
answered == IF scheme \in Counted THEN nfetch + 1 ELSE nfetch

\* ctx.Done() is readable
Done(c) == c # Background /\ ctxDone[c]

Goto(t, l) == pc' = [pc EXCEPT ![t] = l]
Call(t, l, r) == /\ pc' = [pc EXCEPT ![t] = l]
                 /\ stack' = [stack EXCEPT ![t] = <<r>> \o @]
Return(t) == /\ pc' = [pc EXCEPT ![t] = Head(stack[t])]
             /\ stack' = [stack EXCEPT ![t] = Tail(@)]

\* the state after New(): nothing watched; the uri that will be watched has
\* scheme s and will be polled every iv ticks, the clock shows c0, the local
\* file was last written at c0
InitWith(s, c0, iv) ==
  /\ scheme = s
  /\ interval = iv
  /\ loaded = [n |-> 0, since |-> 0, res |-> Outcome(Nil, Nil)]
  /\ modTime = c0
  /\ version = 1
  /\ nfail = 0
  /\ nfetch = 0
  /\ received = <<>>
  /\ watchers = [u \in Uris |-> NoWatcher]
  /\ state = [w \in Watchers |-> isCreated]
  /\ updatedAt = [w \in Watchers |-> 0]
  /\ updates = [w \in Watchers |-> <<>>]
  /\ closed = [w \in Watchers |-> FALSE]
  /\ clock = c0
  /\ ctxDone = [c \in Calls |-> FALSE]
  /\ pc = [t \in Threads |->
             CASE t[1] = "watch" -> "Watch"
               [] t[1] = "loop" -> "off"
               [] t[1] = "unwatch" -> "Unwatch"
               [] t[1] = "checker" -> "Checker"
               [] OTHER -> "Starter"]
  /\ stack = [t \in Threads |-> <<>>]
  /\ tw = [t \in Threads |-> IF t[1] = "loop" THEN t[2] ELSE NoWatcher]
  /\ tctx = [t \in Threads |-> IF t[1] = "watch" THEN t[2] ELSE Background]
  /\ tnow = [t \in Threads |-> 0]
  /\ tprev = [t \in Threads |-> 0]
  /\ twake = [t \in Threads |-> 0]
  /\ tout = [t \in Threads |-> Outcome(Nil, Nil)]
  /\ ures = [k \in Unwatchs |-> "none"]
  /\ nClose = [w \in Watchers |-> 0]
  /\ nStop = [w \in Watchers |-> 0]
  /\ nWin = [w \in Watchers |-> 0]
  /\ nImm = [w \in Watchers |-> 0]
  /\ nLoop = [w \in Watchers |-> 0]
  /\ sentClosed = [w \in Watchers |-> FALSE]

\* Spec does not follow the clock: its watchers poll with interval 0
Init == InitWith("s3", 0, 0)

CallUri(c)    == "u"     \* the uri argument of Watch call c
UnwatchUri(k) == "u"     \* the uri argument of Unwatch call k
UriOf(w)      == CallUri(w)   \* watcher.uri, set by newWatcher

\* Watch call c has returned; the channel it returned is that of tw[WatchT(c)]
Returned(c) == pc[WatchT(c)] = "done"

(* ------------------------------ Loader --------------------------------- *)

\* Loader.Watch: newWatcher, LoadOrStore; Start when newly stored, else return
\* the channel of the watcher found
Watch(t) ==
  /\ pc[t] = "Watch"
  /\ LET r == LoadOrStore(watchers, CallUri(t[2]), t[2]) IN
       /\ watchers' = r.m
       /\ tw' = [tw EXCEPT ![t] = r.actual]
       /\ IF r.loaded THEN Goto(t, "done") /\ UNCHANGED stack
                      ELSE Call(t, "Start", "done")
  /\ UNCHANGED <<state, updatedAt, updates, closed, clock, ctxDone>>
  /\ UNCHANGED <<tctx, tnow, tprev, twake, tout, ures>>
  /\ UNCHANGED hist
  /\ UNCHANGED <<fetcher, received, loaded>>

\* Unwatch as it would be returning true whether or not Load found an entry
Unwatch_alwaysTrue(t) ==
  /\ pc[t] = "Unwatch"
  /\ LET w == watchers[UnwatchUri(t[2])] IN
       /\ ures' = [ures EXCEPT ![t[2]] = "true"]
       /\ IF w = NoWatcher
            THEN /\ Goto(t, "done")
                 /\ UNCHANGED <<stack, tw>>
            ELSE /\ tw' = [tw EXCEPT ![t] = w]
                 /\ Call(t, "Close", "done")
  /\ UNCHANGED <<shared, ctxDone, tctx, tnow, tout, tprev, twake>>
  /\ UNCHANGED hist
  /\ UNCHANGED <<fetcher, received, loaded>>

\* Loader.Unwatch: Load; return false, or Close the watcher found and return true
Unwatch(t) ==
  /\ pc[t] = "Unwatch"
  /\ LET w == watchers[UnwatchUri(t[2])] IN
       IF w = NoWatcher
         THEN /\ ures' = [ures EXCEPT ![t[2]] = "false"]
              /\ Goto(t, "done")
              /\ UNCHANGED <<stack, tw>>
         ELSE /\ ures' = [ures EXCEPT ![t[2]] = "true"]
              /\ tw' = [tw EXCEPT ![t] = w]
              /\ Call(t, "Close", "done")
  /\ UNCHANGED <<shared, ctxDone, tctx, tnow, tout, tprev, twake>>
  /\ UNCHANGED hist
  /\ UNCHANGED <<fetcher, received, loaded>>

\* the teardown callback given to newWatcher: drop the registry entry of the uri
onStop(m, w) == [m EXCEPT ![UriOf(w)] = NoWatcher]

(* ------------------------------ watcher -------------------------------- *)

\* Start as it would be without the early return: the result of the CAS ignored
Start_unguarded(t) ==
  /\ pc[t] = "Start"
  /\ LET w == tw[t] IN
       /\ state' = [state EXCEPT ![w] = changeState(state[w], isCreated, isRunning).st]
       /\ Call(t, "check", "StartGo")
       /\ nWin' = [nWin EXCEPT ![w] = @ + 1]
       /\ nImm' = [nImm EXCEPT ![w] = @ + 1]
  /\ UNCHANGED <<watchers, updatedAt, updates, closed, clock, ctxDone>>
  /\ UNCHANGED <<locals, nClose, nStop, nLoop, sentClosed>>
  /\ UNCHANGED <<fetcher, received, loaded>>

\* Start as it would be with go w.checkLoop(ctx) ahead of w.check(ctx): the
\* winner spawns the loop and then performs the immediate check
Start_goFirst(t) ==
  /\ pc[t] = "Start"
  /\ LET w == tw[t]
         l == LoopT(w)
         r == changeState(state[w], isCreated, isRunning) IN
       /\ state' = [state EXCEPT ![w] = r.st]
       /\ IF r.ok
            THEN /\ pc' = [pc EXCEPT ![t] = "check", ![l] = "checkLoop"]
                 /\ tctx' = [tctx EXCEPT ![l] = tctx[t]]
                 /\ nWin' = [nWin EXCEPT ![w] = @ + 1]
                 /\ nImm' = [nImm EXCEPT ![w] = @ + 1]
                 /\ nLoop' = [nLoop EXCEPT ![w] = @ + 1]
                 /\ UNCHANGED stack
            ELSE /\ Return(t)
                 /\ UNCHANGED <<tctx, nWin, nImm, nLoop>>
  /\ UNCHANGED <<watchers, updatedAt, updates, closed, clock, ctxDone>>
  /\ UNCHANGED <<tw, tnow, tout, ures, tprev, twake, nClose, nStop, sentClosed>>
  /\ UNCHANGED <<fetcher, received, loaded>>

\* watcher.Start: the CAS; the winner goes on to the immediate check
Start(t) ==
  /\ pc[t] = "Start"
  /\ LET w == tw[t]
         r == changeState(state[w], isCreated, isRunning) IN
       /\ state' = [state EXCEPT ![w] = r.st]
       /\ IF r.ok
            THEN /\ Call(t, "check", "StartGo")
                 /\ nWin' = [nWin EXCEPT ![w] = @ + 1]
                 /\ nImm' = [nImm EXCEPT ![w] = @ + 1]
            ELSE /\ Return(t)
                 /\ UNCHANGED <<nWin, nImm>>
  /\ UNCHANGED <<watchers, updatedAt, updates, closed, clock, ctxDone>>
  /\ UNCHANGED <<locals, nClose, nStop, nLoop, sentClosed>>
  /\ UNCHANGED <<fetcher, received, loaded>>

\* watcher.Start: go w.checkLoop(ctx), and return
StartGo(t) ==
  /\ pc[t] = "StartGo"
  /\ LET w == tw[t]
         l == LoopT(w) IN
       /\ nLoop' = [nLoop EXCEPT ![w] = @ + 1]
       /\ tctx' = [tctx EXCEPT ![l] = tctx[t]]
       /\ pc' = [pc EXCEPT ![t] = Head(stack[t]), ![l] = "checkLoop"]
       /\ stack' = [stack EXCEPT ![t] = Tail(@)]
  /\ UNCHANGED <<shared, ctxDone, tw, tnow, tout, ures, tprev, twake>>
  /\ UNCHANGED <<nClose, nStop, nWin, nImm, sentClosed>>
  /\ UNCHANGED <<fetcher, received, loaded>>

\* check as it would be without the case for Disposed and Created: every state
\* but Canceled goes on to the fetch
check_noGuard(t) ==
  /\ pc[t] = "check"
  /\ LET w == tw[t]
         s == state[w] IN
       CASE s = isCanceled ->
              /\ Goto(t, "dispose")
              /\ UNCHANGED <<stack, tnow>>
         [] OTHER ->
              /\ Goto(t, "checkFetch")
              /\ tnow' = [tnow EXCEPT ![t] = clock]
              /\ UNCHANGED stack
  /\ UNCHANGED <<shared, ctxDone, tw, tctx, tout, ures, tprev, twake>>
  /\ UNCHANGED hist
  /\ UNCHANGED <<fetcher, received, loaded>>

\* watcher.check up to the fetch: the switch on the state word; when Running,
\* now := time.Now()
check(t) ==
  /\ pc[t] = "check"
  /\ LET w == tw[t]
         s == state[w] IN
       CASE s = isCanceled ->
              /\ Goto(t, "dispose")
              /\ UNCHANGED <<stack, tnow>>
         [] s \in {isDisposed, isCreated} ->
              /\ Return(t)
              /\ UNCHANGED tnow
         [] OTHER ->
              /\ Goto(t, "checkFetch")
              /\ tnow' = [tnow EXCEPT ![t] = clock]
              /\ UNCHANGED stack
  /\ UNCHANGED <<shared, ctxDone, tw, tctx, tout, ures, tprev, twake>>
  /\ UNCHANGED hist
  /\ UNCHANGED <<fetcher, received, loaded>>

\* checkFetch as it would be with an error treated like the no-change result:
\* nothing stored, nothing sent
checkFetch_dropErr(t) ==
  /\ pc[t] = "checkFetch"
  /\ scheme \in Counted => nfetch < MaxFetch
  /\ LET w == tw[t] IN
       \E o \in LoadIf(updatedAt[w]) :
         /\ nfail' = failed(o)
         /\ nfetch' = answered
         /\ IF o.b = Nil
              THEN /\ Return(t)
                   /\ UNCHANGED <<updatedAt, tprev, tout>>
              ELSE /\ Goto(t, "checkSend")
                   /\ updatedAt' = [updatedAt EXCEPT ![w] = tnow[t]]
                   /\ tprev' = [tprev EXCEPT ![t] = updatedAt[w]]
                   /\ tout' = [tout EXCEPT ![t] = o]
                   /\ UNCHANGED stack
  /\ UNCHANGED <<watchers, state, updates, closed, clock, ctxDone>>
  /\ UNCHANGED <<tw, tctx, tnow, twake, ures>>
  /\ UNCHANGED hist
  /\ UNCHANGED <<scheme, interval, modTime, version, received, loaded>>

\* checkFetch as it would be with the store placed before the test for the
\* no-change result: every fetch moves updatedAt
checkFetch_storeFirst(t) ==
  /\ pc[t] = "checkFetch"
  /\ scheme \in Counted => nfetch < MaxFetch
  /\ LET w == tw[t] IN
       \E o \in LoadIf(updatedAt[w]) :
         /\ nfail' = failed(o)
         /\ nfetch' = answered
         /\ updatedAt' = [updatedAt EXCEPT ![w] = tnow[t]]
         /\ IF o.b = Nil /\ o.err = Nil
              THEN /\ Return(t)
                   /\ UNCHANGED <<tprev, tout>>
              ELSE /\ Goto(t, "checkSend")
                   /\ tprev' = [tprev EXCEPT ![t] = updatedAt[w]]
                   /\ tout' = [tout EXCEPT ![t] = o]
                   /\ UNCHANGED stack
  /\ UNCHANGED <<watchers, state, updates, closed, clock, ctxDone>>
  /\ UNCHANGED <<tw, tctx, tnow, twake, ures>>
  /\ UNCHANGED hist
  /\ UNCHANGED <<scheme, interval, modTime, version, received, loaded>>

\* watcher.check: b, err := w.loader.LoadIf(ctx, w.uri, w.updatedAtTime());
\* return when both are nil, else atomic.StoreInt64(&w.updatedAt, now.UnixNano())
checkFetch(t) ==
  /\ pc[t] = "checkFetch"
  /\ scheme \in Counted => nfetch < MaxFetch
  /\ LET w == tw[t] IN
       \E o \in LoadIf(updatedAt[w]) :
         /\ nfail' = failed(o)
         /\ nfetch' = answered
         /\ IF o.b = Nil /\ o.err = Nil
              THEN /\ Return(t)
                   /\ UNCHANGED <<updatedAt, tprev, tout>>
              ELSE /\ Goto(t, "checkSend")
                   /\ updatedAt' = [updatedAt EXCEPT ![w] = tnow[t]]
                   /\ tprev' = [tprev EXCEPT ![t] = updatedAt[w]]
                   /\ tout' = [tout EXCEPT ![t] = o]
                   /\ UNCHANGED stack
  /\ UNCHANGED <<watchers, state, updates, closed, clock, ctxDone>>
  /\ UNCHANGED <<tw, tctx, tnow, twake, ures>>
  /\ UNCHANGED hist
  /\ UNCHANGED <<scheme, interval, modTime, version, received, loaded>>

\* watcher.check: w.updates <- Update{b, err}; blocks while the buffer is full;
\* on a closed channel the send panics and the deferred handlePanic recovers
checkSend(t) ==
  /\ pc[t] = "checkSend"
  /\ LET w == tw[t] IN
       IF closed[w]
         THEN /\ sentClosed' = [sentClosed EXCEPT ![w] = TRUE]
              /\ UNCHANGED updates
         ELSE /\ Len(updates[w]) < ChanCap
              /\ updates' = [updates EXCEPT ![w] = Append(@, tout[t])]
              /\ UNCHANGED sentClosed
  /\ Return(t)
  /\ tout' = [tout EXCEPT ![t] = Outcome(Nil, Nil)]
  /\ tprev' = [tprev EXCEPT ![t] = 0]
  /\ UNCHANGED <<watchers, state, updatedAt, closed, clock, ctxDone>>
  /\ UNCHANGED <<tw, tctx, tnow, twake, ures>>
  /\ UNCHANGED <<nClose, nStop, nWin, nImm, nLoop>>
  /\ UNCHANGED <<fetcher, received, loaded>>

\* checkLoop as it would be without the case for ctx.Done() in its select
checkLoop_noDone(t) ==
  /\ pc[t] = "checkLoop"
  /\ IF state[tw[t]] # isRunning
       THEN Goto(t, "done") /\ UNCHANGED stack
       ELSE Call(t, "check", IF interval = 0 THEN "checkLoop" ELSE "loopSleep")
  /\ UNCHANGED <<shared, ctxDone, locals>>
  /\ UNCHANGED hist
  /\ UNCHANGED <<fetcher, received, loaded>>

\* watcher.checkLoop: the loop condition and the select: Close and dispose when
\* ctx.Done() is readable, else check and then time.Sleep(w.interval), which
\* returns at once when the interval is 0
checkLoop(t) ==
  /\ pc[t] = "checkLoop"
  /\ IF state[tw[t]] # isRunning
       THEN Goto(t, "done") /\ UNCHANGED stack
       ELSE IF Done(tctx[t])
              THEN /\ pc' = [pc EXCEPT ![t] = "Close"]
                   /\ stack' = [stack EXCEPT ![t] = <<"dispose", "done">>]
              ELSE Call(t, "check", IF interval = 0 THEN "checkLoop" ELSE "loopSleep")
  /\ UNCHANGED <<shared, ctxDone, locals>>
  /\ UNCHANGED hist
  /\ UNCHANGED <<fetcher, received, loaded>>

\* watcher.checkLoop: time.Sleep(w.interval) begins after the check has returned
loopSleep(t) ==
  /\ pc[t] = "loopSleep"
  /\ twake' = [twake EXCEPT ![t] = clock + interval]
  /\ Goto(t, "loopWake")
  /\ UNCHANGED <<shared, ctxDone, stack, tw, tctx, tnow, tprev, tout, ures>>
  /\ UNCHANGED hist
  /\ UNCHANGED <<fetcher, received, loaded>>

\* watcher.checkLoop: time.Sleep(w.interval) returns once the interval has passed
loopWake(t) ==
  /\ pc[t] = "loopWake"
  /\ clock >= twake[t]
  /\ twake' = [twake EXCEPT ![t] = 0]
  /\ Goto(t, "checkLoop")
  /\ UNCHANGED <<shared, ctxDone, stack, tw, tctx, tnow, tprev, tout, ures>>
  /\ UNCHANGED hist
  /\ UNCHANGED <<fetcher, received, loaded>>

\* Close as it would be with a plain atomic store of isCanceled
Close_store(t) ==
  /\ pc[t] = "Close"
  /\ state' = [state EXCEPT ![tw[t]] = isCanceled]
  /\ Goto(t, "dispose")
  /\ UNCHANGED <<watchers, updatedAt, updates, closed, clock, ctxDone, stack>>
  /\ UNCHANGED locals
  /\ UNCHANGED hist
  /\ UNCHANGED <<fetcher, received, loaded>>

\* Close as it would be without its call of dispose: the CAS only
Close_noDispose(t) ==
  /\ pc[t] = "Close"
  /\ LET w == tw[t] IN
       state' = [state EXCEPT ![w] = changeState(state[w], isRunning, isCanceled).st]
  /\ Return(t)
  /\ UNCHANGED <<watchers, updatedAt, updates, closed, clock, ctxDone>>
  /\ UNCHANGED locals
  /\ UNCHANGED hist
  /\ UNCHANGED <<fetcher, received, loaded>>

\* watcher.Close: changeState(isRunning, isCanceled), then dispose
Close(t) ==
  /\ pc[t] = "Close"
  /\ LET w == tw[t] IN
       state' = [state EXCEPT ![w] = changeState(state[w], isRunning, isCanceled).st]
  /\ Goto(t, "dispose")
  /\ UNCHANGED <<watchers, updatedAt, updates, closed, clock, ctxDone, stack>>
  /\ UNCHANGED locals
  /\ UNCHANGED hist
  /\ UNCHANGED <<fetcher, received, loaded>>

\* dispose as it would be with the CAS result ignored: every caller closes
dispose_unguarded(t) ==
  /\ pc[t] = "dispose"
  /\ LET w == tw[t] IN
       state' = [state EXCEPT ![w] = changeState(state[w], isCanceled, isDisposed).st]
  /\ Goto(t, "disposeClose")
  /\ UNCHANGED <<watchers, updatedAt, updates, closed, clock, ctxDone, stack>>
  /\ UNCHANGED locals
  /\ UNCHANGED hist
  /\ UNCHANGED <<fetcher, received, loaded>>

\* watcher.dispose: the CAS; only the winner closes and calls back
dispose(t) ==
  /\ pc[t] = "dispose"
  /\ LET w == tw[t]
         r == changeState(state[w], isCanceled, isDisposed) IN
       /\ state' = [state EXCEPT ![w] = r.st]
       /\ IF r.ok THEN Goto(t, "disposeClose") /\ UNCHANGED stack
                  ELSE Return(t)
  /\ UNCHANGED <<watchers, updatedAt, updates, closed, clock, ctxDone>>
  /\ UNCHANGED locals
  /\ UNCHANGED hist
  /\ UNCHANGED <<fetcher, received, loaded>>

\* dispose as it would be without close(w.updates): straight to the callback
disposeClose_skip(t) ==
  /\ pc[t] = "disposeClose"
  /\ Goto(t, "disposeStop")
  /\ UNCHANGED <<shared, ctxDone, stack>>
  /\ UNCHANGED locals
  /\ UNCHANGED hist
  /\ UNCHANGED <<fetcher, received, loaded>>

\* watcher.dispose: close(w.updates)
disposeClose(t) ==
  /\ pc[t] = "disposeClose"
  /\ closed' = [closed EXCEPT ![tw[t]] = TRUE]
  /\ nClose' = [nClose EXCEPT ![tw[t]] = @ + 1]
  /\ Goto(t, "disposeStop")
  /\ UNCHANGED <<watchers, state, updatedAt, updates, clock, ctxDone, stack>>
  /\ UNCHANGED locals
  /\ UNCHANGED <<nStop, nWin, nImm, nLoop, sentClosed>>
  /\ UNCHANGED <<fetcher, received, loaded>>

\* watcher.dispose: w.onStop()
disposeStop(t) ==
  /\ pc[t] = "disposeStop"
  /\ watchers' = onStop(watchers, tw[t])
  /\ nStop' = [nStop EXCEPT ![tw[t]] = @ + 1]
  /\ Return(t)
  /\ UNCHANGED <<state, updatedAt, updates, closed, clock, ctxDone>>
  /\ UNCHANGED locals
  /\ UNCHANGED <<nClose, nWin, nImm, nLoop, sentClosed>>
  /\ UNCHANGED <<fetcher, received, loaded>>

(* ---------------------------- environment ------------------------------ *)

\* the caller cancels the context it gave to Watch call c
Cancel(c) ==
  /\ ~ctxDone[c]
  /\ ctxDone' = [ctxDone EXCEPT ![c] = TRUE]
  /\ UNCHANGED <<shared, pc, stack, locals>>
  /\ UNCHANGED hist
  /\ UNCHANGED <<fetcher, received, loaded>>

\* a consumer holding the channel returned by Watch receives one Update
Receive(w) ==
  /\ \E c \in Calls : Returned(c) /\ tw[WatchT(c)] = w
  /\ Len(updates[w]) > 0
  /\ updates' = [updates EXCEPT ![w] = Tail(@)]
  /\ UNCHANGED <<watchers, state, updatedAt, closed, clock, ctxDone, pc, stack>>
  /\ UNCHANGED locals
  /\ UNCHANGED hist
  /\ UNCHANGED <<fetcher, received, loaded>>

\* the watcher the harness makes with newWatcher
HarnessWatcher == CHOOSE w \in Watchers : \A v \in Watchers : w <= v

\* the wall clock advances
Tick ==
  /\ clock < MaxClock
  /\ clock' = clock + 1
  /\ UNCHANGED <<watchers, state, updatedAt, updates, closed, ctxDone, pc, stack>>
  /\ UNCHANGED locals
  /\ UNCHANGED hist
  /\ UNCHANGED <<fetcher, received, loaded>>

\* the watched file is written again: new contents, modified now
Modify ==
  /\ scheme = "file"
  /\ version < MaxVersion
  /\ version' = version + 1
  /\ modTime' = clock
  /\ UNCHANGED <<shared, ctxDone, pc, stack>>
  /\ UNCHANGED <<scheme, interval, nfail, nfetch, received, loaded>>
  /\ UNCHANGED locals
  /\ UNCHANGED hist

\* the caller of Watch ranges over the channel it was returned and keeps what
\* it receives
Consume ==
  LET w == HarnessWatcher IN
    /\ Returned(w) /\ tw[WatchT(w)] = w
    /\ Len(updates[w]) > 0
    /\ updates' = [updates EXCEPT ![w] = Tail(@)]
    /\ received' = Append(received, Head(updates[w]))
    /\ UNCHANGED <<watchers, state, updatedAt, closed, clock, ctxDone, pc, stack>>
    /\ UNCHANGED locals
    /\ UNCHANGED hist
    /\ UNCHANGED <<fetcher, loaded>>

\* a test calls w.Start(context.Background()) directly on its watcher
Starter(t) ==
  /\ pc[t] = "Starter"
  /\ tw' = [tw EXCEPT ![t] = HarnessWatcher]
  /\ Call(t, "Start", "done")
  /\ UNCHANGED <<shared, ctxDone, tctx, tnow, tout, ures, tprev, twake>>
  /\ UNCHANGED hist
  /\ UNCHANGED <<fetcher, received, loaded>>

(* --------------------------- specifications ---------------------------- *)

\* the steps a goroutine takes once its call has been issued
Proceed(t) ==
  \/ Start(t) \/ StartGo(t) \/ check(t) \/ checkFetch(t) \/ checkSend(t)
  \/ checkLoop(t)
  \/ Close(t) \/ dispose(t) \/ disposeClose(t) \/ disposeStop(t)

Next ==
  \/ \E c \in Calls : Watch(WatchT(c))
  \/ \E k \in Unwatchs : Unwatch(UnwatchT(k))
  \/ \E t \in Threads : Start(t)
  \/ \E t \in Threads : StartGo(t)
  \/ \E t \in Threads : check(t)
  \/ \E t \in Threads : checkFetch(t)
  \/ \E t \in Threads : checkSend(t)
  \/ \E t \in Threads : checkLoop(t)
  \/ \E t \in Threads : Close(t)
  \/ \E t \in Threads : dispose(t)
  \/ \E t \in Threads : disposeClose(t)
  \/ \E t \in Threads : disposeStop(t)
  \/ \E c \in Calls : Cancel(c)
  \/ \E w \in Watchers : Receive(w)

Spec == Init /\ [][Next]_vars

\* goroutines that can run are eventually run; the callers and the consumer
\* of the channel are free to do nothing
FairSpec == Spec /\ \A t \in Threads : WF_vars(Proceed(t))

\* as FairSpec, with a consumer that keeps draining every channel it holds
FairDrainSpec == FairSpec /\ \A w \in Watchers : WF_vars(Receive(w))

\* TestWatchTwice's harness: a watcher made by newWatcher and started directly,
\* any number of times, sequentially or concurrently, with nobody receiving
NextStart ==
  \/ Tick
  \/ \E s \in Starters : Starter(StarterT(s))
  \/ \E t \in Threads : Start(t)
  \/ \E t \in Threads : StartGo(t)
  \/ \E t \in Threads : check(t)
  \/ \E t \in Threads : checkFetch(t)
  \/ \E t \in Threads : checkSend(t)
  \/ \E t \in Threads : checkLoop(t)

SpecStart == Init /\ [][NextStart]_vars

\* the schemes of the uri watched in SpecPoll
PollSchemes == {"file", "ftp", "stub"}

\* at second 1 the file exists, written in that second; nothing is watched
InitPoll == \E s \in PollSchemes : InitWith(s, TicksPerSec, 0)

\* one Watch call on the uri, an Unwatch call, a consumer that keeps what it
\* receives, the clock ticking and the file being written
NextPoll ==
  \/ Tick
  \/ Modify
  \/ Consume
  \/ Watch(WatchT(HarnessWatcher))
  \/ \E k \in Unwatchs : Unwatch(UnwatchT(k))
  \/ \E t \in Threads : Start(t)
  \/ \E t \in Threads : StartGo(t)
  \/ \E t \in Threads : check(t)
  \/ \E t \in Threads : checkFetch(t)
  \/ \E t \in Threads : checkSend(t)
  \/ \E t \in Threads : checkLoop(t)
  \/ \E t \in Threads : Close(t)
  \/ \E t \in Threads : dispose(t)
  \/ \E t \in Threads : disposeClose(t)
  \/ \E t \in Threads : disposeStop(t)

SpecPoll == InitPoll /\ [][NextPoll]_vars

\* goroutines that can run are eventually run and the consumer keeps receiving;
\* the clock, the writer of the file and the caller of Unwatch are free
FairPoll ==
  SpecPoll /\ (\A t \in Threads : WF_vars(Proceed(t))) /\ WF_vars(Consume)

\* a test calls w.check(context.Background()) directly on its watcher, first
\* thing or after its w.Close() has returned
DirectCheck(t) ==
  /\ pc[t] \in {"Checker", "closed"}
  /\ tw' = [tw EXCEPT ![t] = HarnessWatcher]
  /\ Call(t, "check", IF pc[t] = "closed" THEN "closedChecked" ELSE "checked")
  /\ UNCHANGED <<shared, ctxDone, tctx, tnow, tprev, twake, tout, ures>>
  /\ UNCHANGED hist
  /\ UNCHANGED <<fetcher, received, loaded>>

\* a test calls w.Close() directly on its watcher, first thing or after its
\* w.check has returned
DirectClose(t) ==
  /\ pc[t] \in {"Checker", "checked"}
  /\ tw' = [tw EXCEPT ![t] = HarnessWatcher]
  /\ Call(t, "Close", "closed")
  /\ UNCHANGED <<shared, ctxDone, tctx, tnow, tprev, twake, tout, ures>>
  /\ UNCHANGED hist
  /\ UNCHANGED <<fetcher, received, loaded>>

\* at second 1 a test has made its watcher with newWatcher, to poll every second
InitDirect == InitWith("s3", TicksPerSec, TicksPerSec)

\* the harness of TestWatchTwice, TestCheckClosed and TestLoopClosed: a watcher
\* made by newWatcher whose Start, check and Close are called directly, with the
\* clock ticking and nobody receiving
NextDirect ==
  \/ Tick
  \/ \E s \in Starters : Starter(StarterT(s))
  \/ \E i \in Checkers : DirectCheck(CheckerT(i))
  \/ \E i \in Checkers : DirectClose(CheckerT(i))
  \/ \E t \in Threads : Start(t)
  \/ \E t \in Threads : StartGo(t)
  \/ \E t \in Threads : check(t)
  \/ \E t \in Threads : checkFetch(t)
  \/ \E t \in Threads : checkSend(t)
  \/ \E t \in Threads : checkLoop(t)
  \/ \E t \in Threads : loopSleep(t)
  \/ \E t \in Threads : loopWake(t)
  \/ \E t \in Threads : Close(t)
  \/ \E t \in Threads : dispose(t)
  \/ \E t \in Threads : disposeClose(t)
  \/ \E t \in Threads : disposeStop(t)

SpecDirect == InitDirect /\ [][NextDirect]_vars

\* nothing is watched; the uri that will be watched is served by a fetcher that
\* counts its calls
InitCancel == \E s \in Counted : InitWith(s, 0, 0)

\* TestWatchMany's harness: one Watch call with a context that its caller
\* cancels at any moment, and a consumer that keeps what it receives
NextCancel ==
  \/ Cancel(HarnessWatcher)
  \/ Consume
  \/ Watch(WatchT(HarnessWatcher))
  \/ \E t \in Threads : Start(t)
  \/ \E t \in Threads : StartGo(t)
  \/ \E t \in Threads : check(t)
  \/ \E t \in Threads : checkFetch(t)
  \/ \E t \in Threads : checkSend(t)
  \/ \E t \in Threads : checkLoop(t)
  \/ \E t \in Threads : Close(t)
  \/ \E t \in Threads : dispose(t)
  \/ \E t \in Threads : disposeClose(t)
  \/ \E t \in Threads : disposeStop(t)

SpecCancel == InitCancel /\ [][NextCancel]_vars

\* goroutines that can run are eventually run; the caller is free to cancel or
\* not, the consumer to receive or not
FairCancel == SpecCancel /\ \A t \in Threads : WF_vars(Proceed(t))

\* zeroTime = time.Unix(0, 0), the updatedSince Load passes
zeroTime == 0

\* a caller's Loader.LoadIf(ctx, uri, since) on the uri, keeping what it returned
LoadIfCall(since) ==
  /\ loaded.n < MaxLoads
  /\ \E o \in LoadIf(since) :
       /\ loaded' = [n |-> loaded.n + 1, since |-> since, res |-> o]
       /\ nfail' = failed(o)
       /\ nfetch' = answered
  /\ UNCHANGED <<shared, ctxDone, pc, stack, locals>>
  /\ UNCHANGED hist
  /\ UNCHANGED <<scheme, interval, modTime, version, received>>

\* Loader.Load: LoadIf(ctx, uri, zeroTime)
Load == LoadIfCall(zeroTime)

\* the file exists and was last written at some instant from the epoch on
InitLoad == \E m \in 0..MaxClock : InitWith("file", m, 0)

\* TestLoadIf's harness: Load and LoadIf called directly on the file's uri, the
\* clock ticking and the file being written
NextLoad ==
  \/ Tick
  \/ Modify
  \/ Load
  \/ \E t \in 0..MaxClock : LoadIfCall(t)

SpecLoad == InitLoad /\ [][NextLoad]_vars

(* ------------------------------- claims -------------------------------- *)

\* watcher w was stored in the registry by its Watch call and is not Disposed
Live(w) == tw[WatchT(w)] = w /\ state[w] # isDisposed

\* goroutine t is inside watcher.Start, past the CAS it won
InStart(t) ==
  pc[t] = "StartGo" \/ \E i \in 1..Len(stack[t]) : stack[t][i] = "StartGo"

\* goroutine t is inside the body of dispose it entered by winning the CAS
InDispose(t) == pc[t] \in {"disposeClose", "disposeStop"}

\* C1: under every interleaving of Watch calls for one uri, the live (not
\* Disposed) watchers of that uri are at most one, it is the registry's entry,
\* and the calls that hold a live watcher's channel all hold the same channel.
C1_OneLiveWatcherPerUri ==
  /\ \A w \in Watchers : Live(w) => watchers[UriOf(w)] = w
  /\ \A c1, c2 \in Calls :
       LET w1 == tw[WatchT(c1)]
           w2 == tw[WatchT(c2)] IN
         (/\ w1 # NoWatcher /\ w2 # NoWatcher
          /\ CallUri(c1) = CallUri(c2)
          /\ state[w1] # isDisposed /\ state[w2] # isDisposed) => w1 = w2

\* two Watch calls returned the channel of one running watcher, one of them
\* having found it in the registry
C1_Witness ==
  \E c1, c2 \in Calls :
    /\ c1 # c2 /\ Returned(c1) /\ Returned(c2)
    /\ tw[WatchT(c1)] = c1 /\ tw[WatchT(c2)] = c1
    /\ state[c1] = isRunning /\ watchers[UriOf(c1)] = c1

\* C2: whatever the interleaving of Close / Unwatch, the loop seeing its context
\* cancelled and a check seeing Canceled, a watcher's channel is closed at most
\* once and its teardown callback runs at most once, only in state Disposed,
\* and both have happened exactly once when the disposing goroutine is through.
C2_DisposeOnce ==
  \A w \in Watchers :
    /\ nClose[w] <= 1 /\ nStop[w] <= 1 /\ nStop[w] <= nClose[w]
    /\ (nClose[w] = 1 <=> closed[w])
    /\ (nClose[w] = 1 => state[w] = isDisposed)
    /\ (state[w] = isDisposed /\ ~\E t \in Threads : tw[t] = w /\ InDispose(t))
         => (nClose[w] = 1 /\ nStop[w] = 1)

\* a watcher torn down once although Unwatch closed it and its loop, having
\* seen the context cancelled, closed it and is at its second dispose
C2_Witness ==
  \E w \in Watchers, k \in Unwatchs :
    /\ nClose[w] = 1 /\ nStop[w] = 1 /\ state[w] = isDisposed
    /\ tw[UnwatchT(k)] = w /\ pc[UnwatchT(k)] = "done"
    /\ pc[LoopT(w)] = "dispose" /\ stack[LoopT(w)] = <<"done">>

\* C3: once Unwatch has found a watcher in the registry (and so returns true),
\* the watcher's channel is eventually closed and the watcher is eventually no
\* longer the registry's entry.
C3_UnwatchEventuallyStops ==
  \A k \in Unwatchs : \A w \in Watchers :
    (ures[k] = "true" /\ tw[UnwatchT(k)] = w)
      ~> (closed[w] /\ watchers[UriOf(w)] # w)

\* C4: once the context of the Watch call that started a watcher has fired,
\* the watcher is eventually Disposed, channel closed and callback run, also
\* when nobody receives from the channel.
C4_CancelEventuallyDisposes ==
  \A c \in Calls :
    (ctxDone[c] /\ tw[WatchT(c)] = c /\ nWin[c] = 1)
      ~> (state[c] = isDisposed /\ closed[c] /\ nStop[c] = 1)

\* C5: for every Watch call that has returned, whether it stored the watcher or
\* found it, the firing of the call's context leads to the returned channel
\* being closed.
C5_CancelClosesReturnedStream ==
  \A c \in Calls : \A w \in Watchers :
    (Returned(c) /\ tw[WatchT(c)] = w /\ ctxDone[c]) ~> closed[w]

\* C6: no check ever executes its send on a channel that has been closed.
C6_NoSendOnClosed == \A w \in Watchers : ~sentClosed[w]

\* C7: a check that holds a fetched (b, err) leaves its send only by appending
\* that Update to the channel.
C7_NoUpdateDiscarded ==
  [][\A t \in Threads :
       (pc[t] = "checkSend" /\ pc'[t] # "checkSend")
         => updates'[tw[t]] = Append(updates[tw[t]], tout[t])]_vars

\* C8: of any number of Start calls on one watcher exactly one wins the
\* Created -> Running transition, performs the one immediate check and spawns
\* the one loop; the watcher has left Created exactly when a call has won.
C8_StartOnce ==
  \A w \in Watchers :
    /\ nWin[w] <= 1 /\ nImm[w] = nWin[w] /\ nLoop[w] <= nWin[w]
    /\ (state[w] # isCreated <=> nWin[w] = 1)
    /\ (pc[LoopT(w)] # "off" <=> nLoop[w] = 1)
    /\ (nWin[w] = 1 /\ ~\E t \in Threads : tw[t] = w /\ InStart(t)) => nLoop[w] = 1

\* every direct Start call on the watcher has returned, at least two of them,
\* and the watcher has had one winner, one immediate check and one loop
C8_Witness ==
  LET w == HarnessWatcher IN
    /\ Cardinality(Starters) >= 2
    /\ \A s \in Starters : tw[StarterT(s)] = w /\ pc[StarterT(s)] = "done"
    /\ nWin[w] = 1 /\ nImm[w] = 1 /\ nLoop[w] = 1

\* C9: every change of a watcher's state is one of Created -> Running,
\* Running -> Canceled, Canceled -> Disposed.
C9_ForwardOneStep ==
  [][\A w \in Watchers :
       state'[w] # state[w] =>
         <<state[w], state'[w]>> \in {<<isCreated, isRunning>>,
                                      <<isRunning, isCanceled>>,
                                      <<isCanceled, isDisposed>>}]_vars

\* a started watcher has gone all the way to Disposed and been torn down, an
\* Unwatch having gone through Close and dispose on it
C9_Witness ==
  \E w \in Watchers, k \in Unwatchs :
    /\ state[w] = isDisposed /\ nWin[w] = 1 /\ nStop[w] = 1
    /\ tw[UnwatchT(k)] = w /\ pc[UnwatchT(k)] = "done"

\* C10: no Watch call gets from LoadOrStore a watcher that is already Disposed.
C10_NeverReturnsDisposed ==
  [][\A c \in Calls :
       (pc[WatchT(c)] = "Watch" /\ pc'[WatchT(c)] # "Watch")
         => state[tw'[WatchT(c)]] # isDisposed]_vars

\* the consumer has received a non-error Update carrying contents v
Got(v) ==
  \E i \in 1..Len(received) : received[i].b = v /\ received[i].err = Nil

\* C11: once the watched file has new contents while its watcher is Running,
\* whatever the moment of the write and whatever fetches failed, the draining
\* consumer eventually receives a non-error Update carrying them, unless the
\* watcher is stopped or the file is written again first.
C11_ModifiedEventuallyDelivered ==
  \A v \in 2..MaxVersion :
    (scheme = "file" /\ version = v /\ state[HarnessWatcher] = isRunning)
      ~> (Got(v) \/ state[HarnessWatcher] # isRunning \/ version # v)

\* C12: the consumer never receives two non-error Updates carrying the same
\* contents of the watched file.
C12_VersionDeliveredOnce ==
  scheme = "file" =>
    \A i, j \in 1..Len(received) :
      (i < j /\ received[i].err = Nil /\ received[j].err = Nil)
        => received[i].b # received[j].b

\* the fetch goroutine t performs in this step returns an error
FetchFails(t) ==
  \/ scheme = "file" /\ nfail' # nfail
  \/ scheme \in Counted /\ \A o \in LoadIf(updatedAt[tw[t]]) : o.err # Nil

\* C13: a check whose fetch returns an error leaves the state word alone and
\* goes on to send an Update carrying the error; that send, on a channel not
\* closed, appends the Update, leaves the state word alone and returns to the
\* loop (or to Start, which spawns it); the loop of a Running watcher whose
\* context has not fired goes on to the next check; and Watch itself always
\* hands back a watcher's channel, also for the unsupported scheme.
C13_ErrorPublishedLoopGoesOn ==
  [][\A t \in Threads :
       /\ (pc[t] = "checkFetch" /\ pc'[t] # "checkFetch" /\ FetchFails(t))
            => (/\ pc'[t] = "checkSend" /\ tout'[t].err # Nil
                /\ state' = state)
       /\ (/\ pc[t] = "checkSend" /\ pc'[t] # "checkSend"
           /\ tout[t].err # Nil /\ ~closed[tw[t]])
            => (/\ updates'[tw[t]] = Append(updates[tw[t]], tout[t])
                /\ state' = state
                /\ pc'[t] \in {"checkLoop", "StartGo"})
       /\ (/\ pc[t] = "checkLoop" /\ pc'[t] # "checkLoop"
           /\ state[tw[t]] = isRunning /\ ~Done(tctx[t]))
            => pc'[t] = "check"
       /\ (pc[t] = "Watch" /\ pc'[t] # "Watch")
            => (tw'[t] # NoWatcher /\ pc'[t] \in {"Start", "done"})]_vars

\* Watch on a uri of the unsupported scheme has returned, the consumer has
\* received the error of the immediate check, and the watcher, still Running,
\* holds the error of a later check of its loop
C13_Witness ==
  LET w == HarnessWatcher IN
    /\ scheme = "ftp" /\ Returned(w) /\ tw[WatchT(w)] = w
    /\ Len(received) >= 1 /\ received[1].err # Nil /\ received[1].b = Nil
    /\ state[w] = isRunning
    /\ pc[LoopT(w)] = "checkSend" /\ tout[LoopT(w)].err # Nil

\* C14: with the fetcher that alternates data and error call after call, the
\* consumer's i-th Update is what the i-th fetch returned: the stream carries
\* the alternation in call order, nothing reordered and nothing skipped.
C14_StreamInCallOrder ==
  scheme = "stub" =>
    \A i \in 1..Len(received) : received[i] = Alternate(i)

\* the consumer has received data, error, data of the alternating fetcher's
\* first three calls
C14_Witness ==
  /\ scheme = "stub" /\ Len(received) >= 3
  /\ received[1].b # Nil /\ received[2].err # Nil /\ received[3].b # Nil

\* C15: an Unwatch whose Load finds no entry for the uri returns false and is
\* through, and leaves the registry and every watcher's state, channel,
\* closedness and last-update time as they were.
C15_UnwatchMissIsNoOp ==
  [][\A k \in Unwatchs :
       (/\ pc[UnwatchT(k)] = "Unwatch" /\ pc'[UnwatchT(k)] # "Unwatch"
        /\ watchers[UnwatchUri(k)] = NoWatcher)
         => (/\ ures'[k] = "false" /\ pc'[UnwatchT(k)] = "done"
             /\ watchers' = watchers /\ state' = state /\ updates' = updates
             /\ closed' = closed /\ updatedAt' = updatedAt)]_vars

\* an Unwatch has returned false, the uri's earlier watcher having been
\* disposed and dropped from the registry
C15_Witness ==
  \E k \in Unwatchs, w \in Watchers :
    /\ ures[k] = "false" /\ pc[UnwatchT(k)] = "done"
    /\ UnwatchUri(k) = UriOf(w) /\ state[w] = isDisposed /\ nStop[w] = 1

\* C16: an Unwatch returns true only when the entry its Load finds is a
\* watcher that is not Disposed at that moment.
C16_UnwatchTrueOnlyIfLive ==
  [][\A k \in Unwatchs :
       (pc[UnwatchT(k)] = "Unwatch" /\ ures'[k] = "true")
         => state[watchers[UnwatchUri(k)]] # isDisposed]_vars

\* C17: a watcher that its Watch call stored in the registry and that is no
\* longer the entry of its uri is Disposed and its channel is closed; so no
\* entry of a Created, Running or Canceled watcher is ever removed.
C17_RemovedOnlyWhenDisposed ==
  \A w \in Watchers :
    (tw[WatchT(w)] = w /\ watchers[UriOf(w)] # w)
      => (state[w] = isDisposed /\ closed[w])

\* a watcher that was stored and started has been disposed and its entry has
\* been removed, the uri being watched by nobody
C17_Witness ==
  \E w \in Watchers :
    /\ tw[WatchT(w)] = w /\ nWin[w] = 1 /\ watchers[UriOf(w)] = NoWatcher
    /\ state[w] = isDisposed /\ closed[w] /\ nStop[w] = 1

\* exactly one of the Update's two fields is populated
OneField(u) == (u.b # Nil) # (u.err # Nil)

\* C18: every Update on a watcher's channel, and every Update the consumer
\* has received, has exactly one of its two fields populated.
C18_ExactlyOneField ==
  /\ \A w \in Watchers : \A i \in 1..Len(updates[w]) : OneField(updates[w][i])
  /\ \A i \in 1..Len(received) : OneField(received[i])

\* C19: no step lowers a watcher's last-update time.
C19_UpdatedAtMonotone ==
  [][\A w \in Watchers : updatedAt'[w] >= updatedAt[w]]_vars

\* the consumer has received two Updates of the watched file and the
\* watcher's last-update time has moved on from the second in which the
\* watch began
C19_Witness ==
  /\ scheme = "file" /\ Len(received) >= 2
  /\ updatedAt[HarnessWatcher] > TicksPerSec

\* C20: a check changes the watcher's last-update time only when its fetch
\* returned bytes and no error.
C20_AdvancedOnlyBySuccess ==
  [][\A t \in Threads :
       (pc[t] = "checkFetch" /\ updatedAt'[tw[t]] # updatedAt[tw[t]])
         => (tout'[t].b # Nil /\ tout'[t].err = Nil)]_vars

\* C21: a LoadIf that does not fail returns (nil, nil) whenever its updatedSince
\* is after the file's modification time, and the file's whole contents with no
\* error whenever its updatedSince is zeroTime, which is what Load passes
C21_LoadIfByModTime ==
  [][(loaded'.n = loaded.n + 1 /\ nfail' = nfail) =>
       /\ loaded'.since > modTime => loaded'.res = Outcome(Nil, Nil)
       /\ loaded'.since = zeroTime => loaded'.res = Outcome(version, Nil)]_vars

\* C22: a check whose fetch returns the no-change result (nil, nil) returns at
\* once: nothing is sent, and the state word, the last-update timestamp and the
\* channel are as they were; and a fetch of an unmodified file that does not
\* fail is such a check
C22_NoChangeIsSilent ==
  [][\A t \in Threads :
       (pc[t] = "checkFetch" /\ pc'[t] # "checkFetch") =>
         /\ pc'[t] # "checkSend" =>
              /\ pc'[t] = Head(stack[t])
              /\ state' = state /\ updatedAt' = updatedAt
              /\ updates' = updates /\ closed' = closed
              /\ tout'[t] = Outcome(Nil, Nil)
         /\ (scheme = "file" /\ ~isModified(modTime, updatedAt[tw[t]])
               /\ nfail' = nfail) => pc'[t] # "checkSend"]_vars

\* the loop of a Running watcher of a file is back from a check that read a now
\* later than the timestamp and left the timestamp alone: its fetch returned the
\* no-change result
C22_Witness ==
  \E w \in Watchers :
    /\ scheme = "file" /\ state[w] = isRunning
    /\ pc[LoopT(w)] = "checkLoop"
    /\ tnow[LoopT(w)] > updatedAt[w]
    /\ updates[w] = <<>>

\* C23: a check that finds the state word Created or Disposed returns at once:
\* it reads no clock, fetches nothing, sends nothing, and the state word, the
\* last-update timestamp and the channel are as they were; and a goroutine
\* comes to the fetch only from a check that found the state word Running
C23_CheckOnlyWhenRunning ==
  [][\A t \in Threads :
       /\ (pc[t] = "check" /\ pc'[t] # "check"
             /\ state[tw[t]] \in {isCreated, isDisposed}) =>
            /\ pc'[t] = Head(stack[t])
            /\ shared' = shared
            /\ tnow' = tnow /\ tout' = tout
            /\ fetcher' = fetcher
       /\ (pc'[t] = "checkFetch" /\ pc[t] # "checkFetch") =>
            pc[t] = "check" /\ state[tw[t]] = isRunning]_vars

\* the test's w.check has returned, called after its w.Close() had returned and
\* left the watcher Disposed, and it has read no clock
C23_Witness ==
  \E i \in Checkers :
    /\ pc[CheckerT(i)] = "closedChecked"
    /\ state[HarnessWatcher] = isDisposed
    /\ tnow[CheckerT(i)] = 0

\* C24: a check that ends in a fault (the send on the closed channel, which
\* panics and is recovered by handlePanic) emits nothing, returns to its caller,
\* and leaves the state word as it was and the last-update timestamp as it was
\* when the check began
C24_FaultIsAbsorbed ==
  [][\A t \in Threads :
       (pc[t] = "checkSend" /\ pc'[t] # "checkSend" /\ closed[tw[t]]) =>
         /\ updates' = updates
         /\ pc'[t] = Head(stack[t])
         /\ state' = state
         /\ updatedAt'[tw[t]] = tprev[t]]_vars

\* C25: once a watcher has left Running through Close, its polling loop comes
\* to its end in every execution, whatever it was doing: between two checks,
\* inside a fetch, or blocked on the send with the buffer full and nobody
\* receiving
C25_CloseEndsLoop ==
  \A w \in Watchers :
    (state[w] \in {isCanceled, isDisposed}) ~> (pc[LoopT(w)] = "done")

\* the loop has ended after an Unwatch although its last send found the channel
\* closed, the Update in the buffer never having been received
C25_Witness ==
  \E w \in Watchers :
    /\ pc[LoopT(w)] = "done"
    /\ sentClosed[w]
    /\ Len(updates[w]) = ChanCap
    /\ \E k \in Unwatchs : tw[UnwatchT(k)] = w /\ pc[UnwatchT(k)] = "done"

\* the latest now read by a check of watcher w made by Start or by the loop
LastNow(w) ==
  LET nows == {tnow[t] : t \in {u \in Threads : /\ u[1] \in {"watch", "starter", "loop"}
                                                /\ tw[u] = w}}
  IN CHOOSE n \in nows : \A m \in nows : n >= m

\* C26: the loop begins a check only when the cancellation signal has not fired
\* and one interval has passed since the previous check of the watcher began
\* (the immediate check of Start, for the loop's first check)
C26_SleepBeforeEachLoopCheck ==
  [][\A w \in Watchers :
       (pc[LoopT(w)] = "checkLoop" /\ pc'[LoopT(w)] = "check") =>
         /\ ~Done(tctx[LoopT(w)])
         /\ clock >= LastNow(w) + interval]_vars

\* the loop of watcher w is about to run for the first time, nothing but the
\* immediate check having fetched, and the context of the Watch call has fired
CancelledAtFirstRun(w) ==
  /\ pc[LoopT(w)] = "checkLoop"
  /\ nfetch <= 1
  /\ Done(tctx[LoopT(w)])

\* C27: when the context has fired by the time the loop first runs, the
\* immediate check's fetch stays the only one, its Update stays in the buffer
\* until the consumer receives it, the channel being closed or not, and the
\* watcher comes to Disposed with its channel closed and its callback called
C27_CancelledBeforeLoop ==
  \A w \in Watchers :
    /\ [](CancelledAtFirstRun(w) =>
            [](/\ nfetch = 1
               /\ Len(updates[w]) + Len(received) = 1
               /\ pc[LoopT(w)] \notin {"check", "checkFetch", "checkSend"}))
    /\ CancelledAtFirstRun(w) ~>
         (state[w] = isDisposed /\ closed[w] /\ nStop[w] = 1)

\* the watcher is Disposed and its channel closed after one fetch, the loop has
\* ended, and the Update of the immediate check is still in the buffer
C27_Witness ==
  \E w \in Watchers :
    /\ ctxDone[w] /\ state[w] = isDisposed /\ closed[w]
    /\ pc[LoopT(w)] = "done"
    /\ nfetch = 1
    /\ Len(updates[w]) = 1 /\ received = <<>>

\* goroutine t is inside watcher.check, the dispose it may call included
InCheck(t) ==
  \/ pc[t] \in {"check", "checkFetch", "checkSend"}
  \/ /\ pc[t] \in {"dispose", "disposeClose", "disposeStop"}
     /\ stack[t] # <<>>
     /\ Head(stack[t]) \in {"StartGo", "checkLoop", "loopSleep"}

\* C28: at most one goroutine is inside check for a watcher at any time, and
\* the watcher's channel never holds more than one Update
C28_OneCheckInFlight ==
  \A w \in Watchers :
    /\ Cardinality({t \in Threads : tw[t] = w /\ InCheck(t)}) <= 1
    /\ Len(updates[w]) <= 1

\* Watch has returned, the loop is inside check at the send, and the buffer holds
\* the one Update nobody has received
C28_Witness ==
  \E w \in Watchers :
    /\ Returned(w) /\ tw[WatchT(w)] = w
    /\ pc[LoopT(w)] = "checkSend"
    /\ Len(updates[w]) = 1

\* C29: the immediate check of a Watch call comes to its send with the channel
\* empty (or closed, where the send does not block either), and every Watch call
\* that has begun returns, whether or not anybody ever receives
C29_WatchNeverBlocks ==
  \A c \in Calls :
    /\ [](pc[WatchT(c)] = "checkSend" =>
            (closed[tw[WatchT(c)]] \/ updates[tw[WatchT(c)]] = <<>>))
    /\ (pc[WatchT(c)] # "Watch") ~> Returned(c)

\* a Watch call that created its watcher has returned after an immediate check
\* whose Update is in the buffer, the loop not having sent anything since
C29_Witness ==
  \E c \in Calls :
    /\ Returned(c) /\ tw[WatchT(c)] = c /\ nImm[c] = 1
    /\ Len(updates[c]) = 1
    /\ pc[LoopT(c)] \in {"off", "checkLoop"}
    /\ state[c] = isRunning

\* C30: an entry of the registry is removed only by the callback of the watcher
\* it holds, called from that watcher's dispose once it is Disposed, so never
\* the entry of another, live watcher; and a watcher object whose Watch call
\* found another watcher in the registry stays Created: it is never started,
\* runs no loop, closes nothing and never calls its callback
C30_CallbackRemovesOwnEntry ==
  /\ [][\A u \in Uris :
          (watchers[u] # NoWatcher /\ watchers'[u] # watchers[u]) =>
            /\ watchers'[u] = NoWatcher
            /\ state[watchers[u]] = isDisposed
            /\ nStop'[watchers[u]] = nStop[watchers[u]] + 1
            /\ \E t \in Threads : /\ pc[t] = "disposeStop" /\ pc'[t] # "disposeStop"
                                  /\ tw[t] = watchers[u]]_vars
  /\ [](\A c \in Calls :
          (pc[WatchT(c)] # "Watch" /\ tw[WatchT(c)] # c) =>
            /\ state[c] = isCreated
            /\ nWin[c] = 0 /\ nLoop[c] = 0 /\ nClose[c] = 0 /\ nStop[c] = 0
            /\ \A u \in Uris : watchers[u] # c)

\* the callback of a Disposed watcher has run and a newer watcher of the same
\* uri is registered and Running
C30_Witness ==
  \E w, v \in Watchers :
    /\ w # v /\ UriOf(w) = UriOf(v)
    /\ state[w] = isDisposed /\ nStop[w] = 1
    /\ watchers[UriOf(v)] = v /\ state[v] = isRunning
====
